---- MODULE Spec2Model ----
(***************************************************************************)
(* Model of the docdrip-api document pipeline:                             *)
(*   DocumentMixinService.process_document, validate_document,             *)
(*   get_supported_extensions and their helpers                            *)
(*   (app/services/mixins/document_mixin_service.py), the POST convert     *)
(*   and POST validate endpoints                                           *)
(*   (app/routers/v1/documents/api_document_router.py).                    *)
(*                                                                         *)
(* Python strings are sequences of one-character strings; a message is a   *)
(* sequence of fragments whose concatenation is the Python string.         *)
(* Optional values are sequences of length at most one.                    *)
(***************************************************************************)
EXTENDS Integers, Sequences, FiniteSets, TLC

(* ---------------------------- bounds ---------------------------------- *)
MaxStemLen == 1
MaxTextLen == 2
MaxCalls == 2
MaxValidations == 2
MaxLists == 2

(* --------------------------- optionals -------------------------------- *)
None == <<>>
Some(x) == <<x>>
IsNone(o) == o = <<>>
Get(o) == o[1]

(* ------------------------ characters, strings ------------------------- *)
LowerAlphabet == <<"a","b","c","d","e","f","g","h","i","j","k","l","m",
                   "n","o","p","q","r","s","t","u","v","w","x","y","z">>
UpperAlphabet == <<"A","B","C","D","E","F","G","H","I","J","K","L","M",
                   "N","O","P","Q","R","S","T","U","V","W","X","Y","Z">>

IndexIn(c, alphabet) ==
    IF \E i \in 1..Len(alphabet) : alphabet[i] = c
    THEN CHOOSE i \in 1..Len(alphabet) : alphabet[i] = c
    ELSE 0

\* the lowercase letter of every uppercase letter
UpperToLower ==
    [ c \in { UpperAlphabet[i] : i \in 1..Len(UpperAlphabet) } |->
        LowerAlphabet[IndexIn(c, UpperAlphabet)] ]

\* str.lower() on one character
LowerChar(c) == IF c \in DOMAIN UpperToLower THEN UpperToLower[c] ELSE c

\* str.lower()
Lower(s) == [i \in 1..Len(s) |-> LowerChar(s[i])]

\* str.rfind(c): 1-based index of the last occurrence of c, 0 when absent
RFind(s, c) ==
    IF \E i \in 1..Len(s) : s[i] = c
    THEN CHOOSE i \in 1..Len(s) :
            /\ s[i] = c
            /\ \A j \in (i+1)..Len(s) : s[j] # c
    ELSE 0

\* the code point of a character (ord)
Ord(c) ==
    IF IndexIn(c, LowerAlphabet) # 0 THEN 96 + IndexIn(c, LowerAlphabet)
    ELSE IF IndexIn(c, UpperAlphabet) # 0 THEN 64 + IndexIn(c, UpperAlphabet)
    ELSE IF c = "." THEN 46
    ELSE IF c = "/" THEN 47
    ELSE IF c = " " THEN 32
    ELSE IF c = "\n" THEN 10
    ELSE 9

\* Python's str comparison a <= b (lexicographic on code points)
RECURSIVE StrLE(_, _)
StrLE(a, b) ==
    IF a = <<>> THEN TRUE
    ELSE IF b = <<>> THEN FALSE
    ELSE IF Ord(Head(a)) < Ord(Head(b)) THEN TRUE
    ELSE IF Ord(Head(a)) > Ord(Head(b)) THEN FALSE
    ELSE StrLE(Tail(a), Tail(b))

\* sorted(S) for a set of strings
RECURSIVE Sorted(_)
Sorted(S) ==
    IF S = {} THEN <<>>
    ELSE LET m == CHOOSE x \in S : \A y \in S : StrLE(x, y)
         IN  <<m>> \o Sorted(S \ {m})

\* variant: ','.join(list)
RECURSIVE JoinComma_NoSpace(_)
JoinComma_NoSpace(list) ==
    IF list = <<>> THEN <<>>
    ELSE IF Len(list) = 1 THEN list[1]
    ELSE list[1] \o <<",">> \o JoinComma_NoSpace(Tail(list))

\* ', '.join(list)
RECURSIVE JoinComma(_)
JoinComma(list) ==
    IF list = <<>> THEN <<>>
    ELSE IF Len(list) = 1 THEN list[1]
    ELSE list[1] \o <<", ">> \o JoinComma(Tail(list))

\* str.strip(): removes leading and trailing whitespace
Whitespace == {" ", "\n", "\t"}

RECURSIVE LStrip(_)
LStrip(s) ==
    IF s # <<>> /\ Head(s) \in Whitespace THEN LStrip(Tail(s)) ELSE s

RECURSIVE RStrip(_)
RStrip(s) ==
    IF s # <<>> /\ s[Len(s)] \in Whitespace
    THEN RStrip(SubSeq(s, 1, Len(s) - 1))
    ELSE s

Strip(s) == RStrip(LStrip(s))

(* ---------------------------- pathlib --------------------------------- *)
\* str.split('/'): the components between slashes
RECURSIVE SplitSlash(_)
SplitSlash(s) ==
    IF \E i \in 1..Len(s) : s[i] = "/"
    THEN LET i == CHOOSE k \in 1..Len(s) :
                     s[k] = "/" /\ \A j \in 1..(k-1) : s[j] # "/"
         IN  <<SubSeq(s, 1, i - 1)>> \o SplitSlash(SubSeq(s, i + 1, Len(s)))
    ELSE <<s>>

\* PurePosixPath(s).name: the last component that is neither empty nor "."
PathName(s) ==
    LET comps == SelectSeq(SplitSlash(s), LAMBDA c : c # <<>> /\ c # <<".">>)
    IN  IF comps = <<>> THEN <<>> ELSE comps[Len(comps)]

\* PurePosixPath(s).suffix
PathSuffix(s) ==
    LET name == PathName(s)
        i == RFind(name, ".")
    IN  IF 1 < i /\ i < Len(name) THEN SubSeq(name, i, Len(name)) ELSE <<>>

(* ------------------- DocumentMixinService constants ------------------- *)
MAX_FILE_SIZE == 10 * 1024 * 1024

SUPPORTED_EXTENSIONS ==
    { <<".","p","d","f">>, <<".","d","o","c","x">>, <<".","d","o","c">>,
      <<".","t","x","t">>, <<".","m","d">>, <<".","h","t","m","l">>,
      <<".","h","t","m">>, <<".","x","l","s","x">>, <<".","x","l","s">>,
      <<".","p","p","t","x">>, <<".","p","p","t">>, <<".","r","t","f">> }

\* variant: list(self.SUPPORTED_EXTENSIONS), in an order that is not sorted
get_supported_extensions_Unsorted ==
    LET l == Sorted(SUPPORTED_EXTENSIONS)
    IN  [i \in 1..Len(l) |-> l[Len(l) + 1 - i]]

get_supported_extensions == Sorted(SUPPORTED_EXTENSIONS)

_is_file_supported(filename) ==
    Lower(PathSuffix(filename)) \in SUPPORTED_EXTENSIONS

(* ------------------------------ inputs -------------------------------- *)
NameChars == {"a", ".", "/"}

Stems == UNION { [1..n -> NameChars] : n \in 0..MaxStemLen }

Tails == { <<>>, <<".","p","d","f">>, <<".","P","D","F">>, <<".","m","d">>,
           <<".","T","x","t">>, <<".","j","p","g">> }

\* what may follow the last name component
Ends == { <<>>, <<"/">> }

Filenames == { s \o t \o e : s \in Stems, t \in Tails, e \in Ends }
                 \cup { <<"i","m","a","g","e",".","j","p","g">> }

Sizes == { 0, 1, 1024, 5243, MAX_FILE_SIZE, MAX_FILE_SIZE + 1,
           11 * 1024 * 1024 }

\* an UploadFile: its filename (None or a string) and the bytes it holds
Uploads == [ filename : {None} \cup { Some(f) : f \in Filenames },
             size : Sizes ]

\* the file argument: None or an UploadFile
Files == {None} \cup { Some(u) : u \in Uploads }

\* exceptions the upload stream raises from read() and seek()
StreamErrors ==
    { [type |-> "ValueError", msg |-> <<"I/O operation on closed file.">>],
      [type |-> "OSError", msg |-> <<"disk failure">>] }

\* exceptions (subclasses of Exception) the converter raises
ConverterErrors ==
    { [type |-> "ValueError", msg |-> <<"bad document">>],
      [type |-> "FileConversionException", msg |-> <<"Conversion failed">>] }

TextChars == {" ", "\n", "x"}

Texts == UNION { [1..n -> TextChars] : n \in 0..MaxTextLen }

\* what markdown_processor.convert returns: None, or a result whose
\* text_content is None or a string
ConverterResults == {None, Some(None)} \cup { Some(Some(t)) : t \in Texts }

(* ---------------------------- exceptions ------------------------------ *)
ValueError(msg) == [type |-> "ValueError", msg |-> msg]
Exception(msg) == [type |-> "Exception", msg |-> msg]

\* isinstance(e, ValueError)
IsValueError(e) == e.type = "ValueError"

MissingFileError == ValueError(<<"Valid file with filename must be provided.">>)

\* line 58: ', '.join(sorted(self.SUPPORTED_EXTENSIONS))
supported_formats == JoinComma(Sorted(SUPPORTED_EXTENSIONS))

\* the same list joined in an order that is not sorted
supported_formats_Unsorted == JoinComma(get_supported_extensions_Unsorted)

\* variant: the formats are joined in the set's own order, not sorted
UnsupportedFormatError_Unsorted(file_extension) ==
    ValueError(<<"Unsupported file format: ">> \o file_extension
               \o <<". Supported formats: ">>
               \o supported_formats_Unsorted)

UnsupportedFormatError(file_extension) ==
    ValueError(<<"Unsupported file format: ">> \o file_extension
               \o <<". Supported formats: ">>
               \o supported_formats)

ReadError(e) == Exception(<<"Error reading file: ">> \o e.msg)

EmptyContentError == ValueError(<<"File content is empty.">>)

FileSizeError(n) ==
    ValueError(<<"File size (", ToString(n), " bytes) exceeds maximum ",
                 "allowed size (", ToString(MAX_FILE_SIZE), " bytes).">>)

EmptyConversionError == Exception(<<"Conversion resulted in empty content.">>)

\* variant: the except clause re-raises the exception it caught
ConversionError_Reraise(e) == e

ConversionError(e) == Exception(<<"Error during conversion: ">> \o e.msg)

(* ------------------------ process_document steps ---------------------- *)
\* variant: "file is None or file.filename is None", which lets '' through
FileMissing_NullOnly(f) == IsNone(f) \/ IsNone(Get(f).filename)

\* not file or not file.filename
FileMissing(f) == IsNone(f) \/ IsNone(Get(f).filename) \/ Get(Get(f).filename) = <<>>

\* variant: only a missing extension is rejected
ExtensionUnsupported_MissingOnly(file_extension) == file_extension = <<>>

\* file_extension not in self.SUPPORTED_EXTENSIONS
ExtensionUnsupported(file_extension) == file_extension \notin SUPPORTED_EXTENSIONS

\* variant: "file_content is None", which bytes never are
ContentEmpty_NoneOnly(n) == n < 0

\* not file_content
ContentEmpty(n) == n = 0

\* variant: a file of exactly the limit is rejected
SizeExceeded_AtLimit(n) == n >= MAX_FILE_SIZE

\* len(file_content) > self.MAX_FILE_SIZE
SizeExceeded(n) == n > MAX_FILE_SIZE

\* not result or not result.text_content
ConversionEmpty(r) == IsNone(r) \/ IsNone(Get(r)) \/ Get(Get(r)) = <<>>

\* result.text_content.strip()
Markdown(r) == Strip(Get(Get(r)))

(* --------------------------- _get_file_metadata ----------------------- *)
\* file.filename.split('.')[-1].lower() if '.' in file.filename else ''
FileExtension(filename) ==
    IF RFind(filename, ".") # 0
    THEN Lower(SubSeq(filename, RFind(filename, ".") + 1, Len(filename)))
    ELSE <<>>

\* variant: the quotient cut off after two decimals instead of rounded
SizeMbHundredths_Truncated(file_size) ==
    (file_size * 100) \div (1024 * 1024)

\* round(file_size / (1024 * 1024), 2), in hundredths of a megabyte:
\* the quotient is exact in binary floating point, round() is half-to-even
SizeMbHundredths(file_size) ==
    LET q == (file_size * 100) \div (1024 * 1024)
        r == (file_size * 100) % (1024 * 1024)
    IN  IF 2 * r > 1024 * 1024 THEN q + 1
        ELSE IF 2 * r = 1024 * 1024 THEN q + (q % 2)
        ELSE q

FileMetadata(filename, file_size) ==
    [ filename |-> filename,
      size_bytes |-> file_size,
      size_mb |-> SizeMbHundredths(file_size),
      file_extension |-> FileExtension(filename),
      is_supported |-> _is_file_supported(filename) ]

(* ----------------------- convert_document_to_markdown ----------------- *)
Returned(markdown, metadata) ==
    [kind |-> "result", markdown |-> markdown, metadata |-> metadata]

Raised(e) == [kind |-> "error", exc |-> e]

NoOutcome == [kind |-> "none"]

\* variant: the endpoint without its "except ValueError" clause
ConvertResponse_NoValueErrorClause(o) ==
    IF o.kind = "result"
    THEN [status |-> 200, body |-> [markdown |-> o.markdown,
                                     metadata |-> o.metadata]]
    ELSE [status |-> 500,
          detail |-> <<"Error converting document: ">> \o o.exc.msg]

\* the endpoint's try/except around process_document
ConvertResponse(o) ==
    IF o.kind = "result"
    THEN [status |-> 200, body |-> [markdown |-> o.markdown,
                                     metadata |-> o.metadata]]
    ELSE IF IsValueError(o.exc)
    THEN [status |-> 400, detail |-> o.exc.msg]
    ELSE [status |-> 500,
          detail |-> <<"Error converting document: ">> \o o.exc.msg]

(* --------------------------- validate_document ------------------------ *)
ValidationResponse(is_valid, filename, is_supported_format, error) ==
    [ is_valid |-> is_valid,
      filename |-> filename,
      is_supported_format |-> is_supported_format,
      error |-> error ]

ValidationReturned(v) == [kind |-> "result", value |-> v]

\* variant: the format is reported as unsupported instead of unknown
MissingFileValidation_Unsupported ==
    ValidationResponse(FALSE, None, Some(FALSE),
                       Some(<<"File must be provided with a valid filename.">>))

\* lines 124-128: the response for a missing file or filename
MissingFileValidation ==
    ValidationResponse(FALSE, None, None,
                       Some(<<"File must be provided with a valid filename.">>))

\* lines 134-138: the error message for an unsupported extension
UnsupportedValidationError ==
    <<"Unsupported file format. Supported formats: ">>
        \o JoinComma(get_supported_extensions)

\* variant: a missing file raises, as it does in process_document
validate_document_Raising(f) ==
    IF FileMissing(f)
    THEN [kind |-> "error", exc |-> MissingFileError]
    ELSE LET filename == Get(Get(f).filename)
             is_supported == _is_file_supported(filename)
             error_msg == IF ~is_supported
                          THEN Some(UnsupportedValidationError)
                          ELSE None
         IN  ValidationReturned(
                 ValidationResponse(is_supported, Some(filename),
                                    Some(is_supported), error_msg))

\* variant: a file over the size limit is reported invalid
validate_document_SizeChecked(f) ==
    IF FileMissing(f)
    THEN ValidationReturned(MissingFileValidation)
    ELSE LET filename == Get(Get(f).filename)
             is_supported == _is_file_supported(filename)
             error_msg == IF ~is_supported
                          THEN Some(UnsupportedValidationError)
                          ELSE None
         IN  ValidationReturned(
                 ValidationResponse(
                     is_supported /\ Get(f).size <= MAX_FILE_SIZE,
                     Some(filename), Some(is_supported), error_msg))

\* lines 115-145
validate_document(f) ==
    IF FileMissing(f)
    THEN ValidationReturned(MissingFileValidation)
    ELSE LET filename == Get(Get(f).filename)
             is_supported == _is_file_supported(filename)
             error_msg == IF ~is_supported
                          THEN Some(UnsupportedValidationError)
                          ELSE None
         IN  ValidationReturned(
                 ValidationResponse(is_supported, Some(filename),
                                    Some(is_supported), error_msg))

\* the validate endpoint's try/except around validate_document
ValidateResponse(o) ==
    IF o.kind = "result"
    THEN [status |-> 200, body |-> o.value]
    ELSE [status |-> 500,
          detail |-> <<"Error validating document: ">> \o o.exc.msg]

(* ------------------------------ AuthService --------------------------- *)
\* SETTINGS.APP_SECRET_KEY: os.getenv('APP_SECRET_KEY'), None when unset
Secrets == { None, Some(<<>>), Some(<<"k">>), Some(<<" ", " ", " ">>) }

\* the X-API-Key header of a request: absent, or the string sent
Headers == { None, Some(<<>>), Some(<<" ", " ", " ">>), Some(<<"k">>),
             Some(<<"K">>), Some(<<"x">>), Some(<<"N", "o", "n", "e">>) }

\* str(x) of a string or None
Str(x) == IF IsNone(x) THEN <<"N", "o", "n", "e">> ELSE Get(x)

\* not x, for a string or None
Falsy(x) == IsNone(x) \/ Get(x) = <<>>

HTTPException(status_code, detail) ==
    [type |-> "HTTPException", status_code |-> status_code, detail |-> detail]

\* variant: the keys are compared without regard to case
validate_api_key_CaseInsensitive(key, api_key_header) ==
    IF Falsy(api_key_header) \/ Lower(Str(api_key_header)) # Lower(Str(key))
    THEN Raised(HTTPException(401, <<"Unauthorized">>))
    ELSE [kind |-> "result", value |-> TRUE]

\* AuthService.validate_api_key, with self.api_key = key
validate_api_key(key, api_key_header) ==
    IF Falsy(api_key_header) \/ Str(api_key_header) # Str(key)
    THEN Raised(HTTPException(401, <<"Unauthorized">>))
    ELSE [kind |-> "result", value |-> TRUE]

\* the status APIKeyHeader answers with when the header is absent or empty
\* (403 or 401, by the framework's version)
NotAuthenticatedStatuses == {401, 403}

\* variant: a megabyte taken as 1,000,000 bytes
MaxFileSizeMb_Decimal ==
    [ whole |-> MAX_FILE_SIZE \div (1000 * 1000),
      rest |-> MAX_FILE_SIZE % (1000 * 1000) ]

\* max_file_size_mb = core_service.MAX_FILE_SIZE / (1024 * 1024): the float
\* quotient, as whole megabytes and the remaining bytes
MaxFileSizeMb ==
    [ whole |-> MAX_FILE_SIZE \div (1024 * 1024),
      rest |-> MAX_FILE_SIZE % (1024 * 1024) ]

(* ------------------------------- state -------------------------------- *)
VARIABLES
    file,          \* the file argument of the request
    pos,           \* position of the upload stream
    calls,         \* process_document calls made on this upload
    pc,            \* where the current call is
    ops,           \* stream operations of the current call, in order
    file_content,  \* len(file_content) once read
    pending,       \* exception in flight while the finally clause runs
    caught,        \* the exception bound by the last except clause entered
    convCalls,     \* markdown_processor.convert invocations of this call
    result,        \* what markdown_processor.convert returned
    file_size,     \* len of the bytes read by _get_file_metadata
    outcome,       \* what process_document returned or raised
    response,      \* what the endpoint answers
    validations,   \* validate_document calls made on this upload
    validation,    \* what the last validate_document call returned or raised
    validate_response,  \* what the validate endpoint answered
    formats,       \* what the last get_supported_extensions call returned
    api_key,       \* AuthService.api_key, the configured secret
    api_key_header,    \* the X-API-Key header of the request
    key_valid,     \* what a direct validate_api_key call returned or raised
    auth,          \* what the router's dependency returned or raised
    formats_response,  \* what the supported-formats endpoint answered
    suspended,     \* the frame of the other invocation in flight, if any
    running,       \* which of the two invocations the state above belongs to
    registry,      \* the class attributes SUPPORTED_EXTENSIONS, MAX_FILE_SIZE
    handed,        \* the list objects get_supported_extensions handed out
    first          \* what a caller kept of its first call on the upload

vars == <<file, pos, calls, pc, ops, file_content, pending, caught, convCalls,
          result, file_size, outcome, response, validations, validation,
          validate_response, formats, api_key, api_key_header, key_valid,
          auth, formats_response, suspended, running, registry, handed,
          first>>

\* the other invocation, the class attributes and what callers hold
environment == <<suspended, running, registry, handed, first>>

\* the request's authentication and what the other endpoints answered: no
\* method of the document service touches them
request == <<api_key, api_key_header, key_valid, auth, formats_response>>

\* the state process_document does not touch
others == <<validations, validation, validate_response, formats, request,
           environment>>

\* the state validate_document and get_supported_extensions do not touch
processing == <<file, pos, calls, pc, ops, file_content, pending, caught,
                convCalls, result, file_size, outcome, response, request,
                environment>>

locals == <<file_content, pending, caught, convCalls, result, file_size>>

\* a request that carries the configured key and has passed the dependency
Authenticated ==
    /\ api_key = Some(<<"k">>)
    /\ api_key_header = Some(<<"k">>)
    /\ key_valid = NoOutcome
    /\ auth = validate_api_key(api_key, api_key_header)
    /\ formats_response = None

\* no call made yet: the stream at its start, nothing returned
Fresh ==
    /\ pos = 0
    /\ calls = 0
    /\ pc = "idle"
    /\ ops = <<>>
    /\ file_content = None
    /\ pending = None
    /\ caught = None
    /\ convCalls = 0
    /\ result = None
    /\ file_size = None
    /\ outcome = NoOutcome
    /\ response = None
    /\ validations = 0
    /\ validation = NoOutcome
    /\ validate_response = None
    /\ formats = None

\* lines 21-28: the class attributes
ClassAttributes ==
    [ SUPPORTED_EXTENSIONS |-> SUPPORTED_EXTENSIONS,
      MAX_FILE_SIZE |-> MAX_FILE_SIZE ]

\* one invocation at a time, nothing handed out or kept by a caller
Alone ==
    /\ suspended = None
    /\ running = 1
    /\ registry = ClassAttributes
    /\ handed = <<>>
    /\ first = None

Init ==
    /\ file \in Files
    /\ Fresh
    /\ Authenticated
    /\ Alone

\* variant: the finally clause does not move the stream
PositionAfterReset_Kept(p) == p

\* line 72: where file.seek(0) leaves the stream
PositionAfterReset(p) == 0

\* process_document returns or raises; the endpoint turns it into a response
Finish(o) ==
    /\ outcome' = o
    /\ response' = Some(ConvertResponse(o))
    /\ pc' = "done"

UploadSize == Get(file).size

\* lines 50-62: presence check and extension check
ProcessStart ==
    /\ pc \in {"idle", "done"}
    /\ calls < MaxCalls
    /\ UNCHANGED others
    /\ calls' = calls + 1
    /\ ops' = <<>>
    /\ file_content' = None
    /\ pending' = None
    /\ caught' = None
    /\ convCalls' = 0
    /\ result' = None
    /\ file_size' = None
    /\ UNCHANGED <<file, pos>>
    /\ IF FileMissing(file)
       THEN Finish(Raised(MissingFileError))
       ELSE LET file_extension == Lower(PathSuffix(Get(Get(file).filename)))
            IN  IF ExtensionUnsupported(file_extension)
                THEN Finish(Raised(UnsupportedFormatError(file_extension)))
                ELSE /\ pc' = "read"
                     /\ outcome' = NoOutcome
                     /\ response' = None

\* lines 65-69: file_content = await file.read(), or the except clause
ReadContent ==
    /\ pc = "read"
    /\ UNCHANGED others
    /\ pc' = "reset"
    /\ \/ /\ file_content' = Some(UploadSize - pos)
          /\ pos' = UploadSize
          /\ ops' = Append(ops, "read_ok")
          /\ UNCHANGED <<pending, caught>>
       \/ \E e \in StreamErrors, p \in {pos, UploadSize} :
            /\ pending' = Some(ReadError(e))
            /\ caught' = Some(e)
            /\ pos' = p
            /\ ops' = Append(ops, "read_err")
            /\ UNCHANGED file_content
    /\ UNCHANGED <<file, calls, convCalls, result, file_size, outcome,
                   response>>

\* lines 70-83: the finally clause's seek(0), then the exception in flight
\* or the content checks
ResetStream ==
    /\ pc = "reset"
    /\ UNCHANGED others
    /\ UNCHANGED <<file, calls, locals>>
    /\ \/ /\ pos' = PositionAfterReset(pos)
          /\ ops' = Append(ops, "seek_ok")
          /\ IF ~IsNone(pending)
             THEN Finish(Raised(Get(pending)))
             ELSE IF ContentEmpty(Get(file_content))
             THEN Finish(Raised(EmptyContentError))
             ELSE IF SizeExceeded(Get(file_content))
             THEN Finish(Raised(FileSizeError(Get(file_content))))
             ELSE /\ pc' = "convert"
                  /\ UNCHANGED <<outcome, response>>
       \/ \E e \in StreamErrors :
            /\ ops' = Append(ops, "seek_err")
            /\ UNCHANGED pos
            /\ Finish(Raised(e))

\* lines 86-92 and 109-113: the converter call and the empty-result check
Convert ==
    /\ pc = "convert"
    /\ UNCHANGED others
    /\ convCalls' = convCalls + 1
    /\ UNCHANGED <<file, pos, calls, ops, file_content, pending, file_size>>
    /\ \/ \E e \in ConverterErrors :
            /\ caught' = Some(e)
            /\ Finish(Raised(ConversionError(e)))
            /\ UNCHANGED result
       \/ \E r \in ConverterResults :
            /\ result' = Some(r)
            /\ IF ConversionEmpty(r)
               THEN /\ caught' = Some(EmptyConversionError)
                    /\ Finish(Raised(ConversionError(EmptyConversionError)))
               ELSE /\ pc' = "meta_read"
                    /\ UNCHANGED <<caught, outcome, response>>

\* lines 99, 169-170: _get_file_metadata reads the stream again
MetaRead ==
    /\ pc = "meta_read"
    /\ UNCHANGED others
    /\ UNCHANGED <<file, calls, file_content, pending, convCalls, result>>
    /\ \/ /\ file_size' = Some(UploadSize - pos)
          /\ pos' = UploadSize
          /\ ops' = Append(ops, "read_ok")
          /\ pc' = "meta_seek"
          /\ UNCHANGED <<caught, outcome, response>>
       \/ \E e \in StreamErrors, p \in {pos, UploadSize} :
            /\ pos' = p
            /\ caught' = Some(e)
            /\ ops' = Append(ops, "read_err")
            /\ UNCHANGED file_size
            /\ Finish(Raised(ConversionError(e)))

\* lines 173-184 and 101-107: seek(0), the metadata, the response object
MetaSeek ==
    /\ pc = "meta_seek"
    /\ UNCHANGED others
    /\ UNCHANGED <<file, calls, file_content, pending, convCalls, result,
                   file_size>>
    /\ \/ /\ pos' = 0
          /\ ops' = Append(ops, "seek_ok")
          /\ UNCHANGED caught
          /\ Finish(Returned(Markdown(Get(result)),
                             FileMetadata(Get(Get(file).filename),
                                          Get(file_size))))
       \/ \E e \in StreamErrors :
            /\ ops' = Append(ops, "seek_err")
            /\ UNCHANGED pos
            /\ caught' = Some(e)
            /\ Finish(Raised(ConversionError(e)))

\* variant: validation measures the upload by reading it
ValidateDocument_Measuring ==
    /\ pc \in {"idle", "done"}
    /\ validations < MaxValidations
    /\ validations' = validations + 1
    /\ validation' = validate_document(file)
    /\ validate_response' = Some(ValidateResponse(validate_document(file)))
    /\ pos' = IF IsNone(file) THEN pos ELSE Get(file).size
    /\ UNCHANGED <<file, calls, pc, ops, locals, outcome, response, formats,
                   request, environment>>

\* the validate endpoint: validate_document between process_document calls
ValidateDocument ==
    /\ pc \in {"idle", "done"}
    /\ validations < MaxValidations
    /\ validations' = validations + 1
    /\ validation' = validate_document(file)
    /\ validate_response' = Some(ValidateResponse(validate_document(file)))
    /\ UNCHANGED <<processing, formats>>

\* lines 147-153: a call of get_supported_extensions
GetSupportedExtensions ==
    /\ pc \in {"idle", "done"}
    /\ formats' = Some(get_supported_extensions)
    /\ UNCHANGED <<processing, validations, validation, validate_response>>

Next ==
    \/ ProcessStart
    \/ ReadContent
    \/ ResetStream
    \/ Convert
    \/ MetaRead
    \/ MetaSeek
    \/ ValidateDocument
    \/ GetSupportedExtensions

Spec == Init /\ [][Next]_vars

(* ----------------------- the authenticated router --------------------- *)
\* the document service's own state
document == <<file, pos, calls, pc, ops, file_content, pending, caught,
              convCalls, result, file_size, outcome, response, validations,
              validation, validate_response, formats>>

\* the uploads sent to the authenticated router
AuthFiles ==
    { None,
      Some([filename |-> Some(<<"a", ".", "p", "d", "f">>), size |-> 1024]),
      Some([filename |-> Some(<<"i","m","a","g","e",".","j","p","g">>),
            size |-> 1]) }

AuthInit ==
    /\ file \in AuthFiles
    /\ Fresh
    /\ api_key \in Secrets
    /\ api_key_header \in Headers
    /\ key_valid = NoOutcome
    /\ auth = NoOutcome
    /\ formats_response = None
    /\ Alone

\* a direct call of validate_api_key with the header's value
ValidateApiKey ==
    /\ key_valid' = validate_api_key(api_key, api_key_header)
    /\ UNCHANGED <<document, api_key, api_key_header, auth, formats_response,
                   environment>>

\* the dependency of the router: APIKeyHeader(name='X-API-Key') extracts the
\* header, validate_api_key judges it
Authenticate ==
    /\ auth = NoOutcome
    /\ IF Falsy(api_key_header)
       THEN \E st \in NotAuthenticatedStatuses :
               auth' = Raised(HTTPException(st, <<"Not authenticated">>))
       ELSE auth' = validate_api_key(api_key, api_key_header)
    /\ UNCHANGED <<document, api_key, api_key_header, key_valid,
                   formats_response, environment>>

\* variant: the dependency list left empty, as on the v1 router
RouterDependencies_Disabled == {}

\* dependencies=[Depends(CoreService().auth_service.validate_api_key)]
RouterDependencies == {"validate_api_key"}

\* the endpoint function runs once every dependency has returned
DependenciesPassed ==
    \A d \in RouterDependencies : auth = [kind |-> "result", value |-> TRUE]

\* POST /documents
ConvertEndpoint == DependenciesPassed /\ ProcessStart

\* POST /documents/validate
ValidateEndpoint == DependenciesPassed /\ ValidateDocument

\* GET /documents/supported-formats
GetSupportedFormats ==
    /\ DependenciesPassed
    /\ pc \in {"idle", "done"}
    /\ formats' = Some(get_supported_extensions)
    /\ formats_response' =
          Some([ status |-> 200,
                 body |-> [ supported_formats |-> get_supported_extensions,
                            max_file_size_mb |-> MaxFileSizeMb ] ])
    /\ UNCHANGED <<file, pos, calls, pc, ops, locals, outcome, response,
                   validations, validation, validate_response, api_key,
                   api_key_header, key_valid, auth, environment>>

AuthNext ==
    \/ ValidateApiKey
    \/ Authenticate
    \/ ConvertEndpoint
    \/ ReadContent
    \/ ResetStream
    \/ Convert
    \/ MetaRead
    \/ MetaSeek
    \/ ValidateEndpoint
    \/ GetSupportedFormats

AuthSpec == AuthInit /\ [][AuthNext]_vars

(* ----------------------- two invocations in flight -------------------- *)
\* what one invocation owns: its upload and stream, its place in the code,
\* its locals and what it returned
Frame ==
    [ file |-> file, pos |-> pos, calls |-> calls, pc |-> pc, ops |-> ops,
      file_content |-> file_content, pending |-> pending, caught |-> caught,
      convCalls |-> convCalls, result |-> result, file_size |-> file_size,
      outcome |-> outcome, response |-> response,
      validations |-> validations, validation |-> validation,
      validate_response |-> validate_response ]

\* the frame of an invocation that has not started, on the upload f
FreshFrame(f) ==
    [ file |-> f, pos |-> 0, calls |-> 0, pc |-> "idle", ops |-> <<>>,
      file_content |-> None, pending |-> None, caught |-> None,
      convCalls |-> 0, result |-> None, file_size |-> None,
      outcome |-> NoOutcome, response |-> None,
      validations |-> 0, validation |-> NoOutcome,
      validate_response |-> None ]

\* the uploads of the two requests
ConcFiles ==
    { None,
      Some([filename |-> Some(<<"a", ".", "p", "d", "f">>), size |-> 1024]),
      Some([filename |-> Some(<<"a", ".", "m", "d">>), size |-> 0]),
      Some([filename |-> Some(<<"a", ".", "P", "D", "F">>),
            size |-> MAX_FILE_SIZE + 1]),
      Some([filename |-> Some(<<"i","m","a","g","e",".","j","p","g">>),
            size |-> 1]) }

ConcInit ==
    /\ file \in ConcFiles
    /\ Fresh
    /\ Authenticated
    /\ suspended \in { Some(FreshFrame(f)) : f \in ConcFiles }
    /\ running = 1
    /\ registry = ClassAttributes
    /\ handed = <<>>
    /\ first = None

\* variant: the bytes read are kept on the service object the requests share
ResumedContent_Shared(mine, theirs) == mine

\* line 66: file_content is a local of the coroutine, so an invocation that
\* resumes finds its own (theirs), not what the one that ran last read (mine)
ResumedContent(mine, theirs) == theirs

\* the host suspends the running invocation and resumes the other
Switch ==
    /\ ~IsNone(suspended)
    /\ suspended' = Some(Frame)
    /\ running' = 3 - running
    /\ LET fr == Get(suspended) IN
        /\ file' = fr.file
        /\ pos' = fr.pos
        /\ calls' = fr.calls
        /\ pc' = fr.pc
        /\ ops' = fr.ops
        /\ file_content' = ResumedContent(file_content, fr.file_content)
        /\ pending' = fr.pending
        /\ caught' = fr.caught
        /\ convCalls' = fr.convCalls
        /\ result' = fr.result
        /\ file_size' = fr.file_size
        /\ outcome' = fr.outcome
        /\ response' = fr.response
        /\ validations' = fr.validations
        /\ validation' = fr.validation
        /\ validate_response' = fr.validate_response
    /\ UNCHANGED <<formats, request, registry, handed, first>>

\* each request makes one call: process_document ...
ConcProcessDocument == calls = 0 /\ validations = 0 /\ ProcessStart

\* ... or validate_document
ConcValidateDocument == calls = 0 /\ validations = 0 /\ ValidateDocument

ConcNext ==
    \/ Switch
    \/ ConcProcessDocument
    \/ ReadContent
    \/ ResetStream
    \/ Convert
    \/ MetaRead
    \/ MetaSeek
    \/ ConcValidateDocument

ConcSpec == ConcInit /\ [][ConcNext]_vars

(* ------------------------ callers of the registry --------------------- *)
RegistryFiles ==
    { Some([filename |-> Some(<<"a", ".", "p", "d", "f">>), size |-> 1024]),
      Some([filename |-> Some(<<"i","m","a","g","e",".","j","p","g">>),
            size |-> 1]) }

RegistryInit ==
    /\ file \in RegistryFiles
    /\ Fresh
    /\ Authenticated
    /\ Alone

\* sorted(list(S)); for the class attribute as defined it is the list
\* get_supported_extensions stands for
SortedList(S) ==
    IF S = SUPPORTED_EXTENSIONS THEN get_supported_extensions ELSE Sorted(S)

\* variant: the list built by the first call is kept and handed out again
ReturnedList_Cached(objs) == 1

\* line 153: sorted() builds a new list object on every call
ReturnedList(objs) == Len(objs) + 1

\* a call of get_supported_extensions: the caller receives a list object
CallGetSupportedExtensions ==
    /\ pc \in {"idle", "done"}
    /\ Len(handed) < MaxLists
    /\ LET ref == ReturnedList(handed)
           objs == IF ref > Len(handed)
                   THEN Append(handed, SortedList(registry.SUPPORTED_EXTENSIONS))
                   ELSE handed
       IN  /\ handed' = objs
           /\ formats' = Some(objs[ref])
    /\ UNCHANGED <<file, pos, calls, pc, ops, locals, outcome, response,
                   validations, validation, validate_response, request,
                   suspended, running, registry, first>>

\* what a caller does to a list it received: clear() or append('.exe')
Mutations(l) ==
    {<<>>} \cup { Append(l, <<".", "e", "x", "e">>) : x \in
                    IF \E i \in 1..Len(l) : l[i] = <<".", "e", "x", "e">>
                    THEN {} ELSE {1} }

CallerMutates ==
    /\ \E i \in 1..Len(handed) : \E m \in Mutations(handed[i]) :
          handed' = [handed EXCEPT ![i] = m]
    /\ UNCHANGED <<document, request, suspended, running, registry, first>>

\* one call of process_document ...
RegistryProcessDocument == calls = 0 /\ ProcessStart

\* ... and one of validate_document
RegistryValidateDocument == validations = 0 /\ ValidateDocument

RegistryNext ==
    \/ CallGetSupportedExtensions
    \/ CallerMutates
    \/ RegistryProcessDocument
    \/ ReadContent
    \/ ResetStream
    \/ Convert
    \/ MetaRead
    \/ MetaSeek
    \/ RegistryValidateDocument

RegistrySpec == RegistryInit /\ [][RegistryNext]_vars

(* ------------------- CoreService.convert_file_to_markdown ------------- *)
\* core_service.py line 17
CoreService_MAX_FILE_SIZE == 10 * 1024 * 1024

\* variant: '.md' left out of the second registry
CoreService_SUPPORTED_EXTENSIONS_NoMd ==
    SUPPORTED_EXTENSIONS \ { <<".","m","d">> }

\* core_service.py lines 20-23
CoreService_SUPPORTED_EXTENSIONS ==
    { <<".","p","d","f">>, <<".","d","o","c","x">>, <<".","d","o","c">>,
      <<".","t","x","t">>, <<".","m","d">>, <<".","h","t","m","l">>,
      <<".","h","t","m">>, <<".","x","l","s","x">>, <<".","x","l","s">>,
      <<".","p","p","t","x">>, <<".","p","p","t">>, <<".","r","t","f">> }

CoreFileMissingError == ValueError(<<"File must be provided.">>)

CoreFilenameMissingError == ValueError(<<"File must have a filename.">>)

\* ", ".join(sorted(self.SUPPORTED_EXTENSIONS))
CoreService_supported_formats ==
    JoinComma(Sorted(CoreService_SUPPORTED_EXTENSIONS))

CoreUnsupportedFormatError(file_extension) ==
    ValueError(<<"Unsupported file format: ">> \o file_extension
               \o <<". Supported formats: ">>
               \o CoreService_supported_formats)

CoreFileSizeError(n) ==
    ValueError(<<"File size (", ToString(n), " bytes) exceeds maximum ",
                 "allowed size (", ToString(CoreService_MAX_FILE_SIZE),
                 " bytes).">>)

\* variant: the text is returned as the converter gave it
CoreMarkdown_Unstripped(r) == Get(Get(r))

\* core_service.py line 92: result.text_content.strip()
CoreMarkdown(r) == Strip(Get(Get(r)))

\* convert_file_to_markdown returns the markdown string
CoreReturned(markdown) == [kind |-> "result", markdown |-> markdown]

\* convert_file_to_markdown returns or raises
CoreFinish(o) ==
    /\ outcome' = o
    /\ pc' = "core_done"

\* the uploads both conversion paths are called on
TwiceFiles ==
    { None,
      Some([filename |-> None, size |-> 1024]),
      Some([filename |-> Some(<<>>), size |-> 1024]),
      Some([filename |-> Some(<<"a", ".", "p", "d", "f">>), size |-> 1024]),
      Some([filename |-> Some(<<"a", ".", "m", "d">>), size |-> 5243]),
      Some([filename |-> Some(<<"a", ".", "T", "x", "t">>), size |-> 0]),
      Some([filename |-> Some(<<"a", ".", "P", "D", "F">>),
            size |-> MAX_FILE_SIZE]),
      Some([filename |-> Some(<<"a", ".", "P", "D", "F">>),
            size |-> MAX_FILE_SIZE + 1]),
      Some([filename |-> Some(<<".", "p", "d", "f">>), size |-> 1]),
      Some([filename |-> Some(<<"i","m","a","g","e",".","j","p","g">>),
            size |-> 1]) }

TwiceInit ==
    /\ file \in TwiceFiles
    /\ Fresh
    /\ Authenticated
    /\ Alone

\* the first call on the upload is process_document; so is the second, once
\* the caller has kept what the first gave
TwiceProcessDocument ==
    /\ calls = 0 \/ (calls = 1 /\ ~IsNone(first))
    /\ ProcessStart

\* the caller keeps the outcome of its first call, and what the stream and
\* the converter answered during it
KeepFirst ==
    /\ pc = "done"
    /\ calls = 1
    /\ IsNone(first)
    /\ first' = Some([ outcome |-> outcome, ops |-> ops,
                       convCalls |-> convCalls, result |-> result,
                       caught |-> caught ])
    /\ UNCHANGED <<document, request, suspended, running, registry, handed>>

\* core_service.py lines 42-55: the second call is convert_file_to_markdown
CoreStart ==
    /\ pc = "done"
    /\ calls = 1
    /\ ~IsNone(first)
    /\ UNCHANGED others
    /\ calls' = calls + 1
    /\ ops' = <<>>
    /\ file_content' = None
    /\ pending' = None
    /\ caught' = None
    /\ convCalls' = 0
    /\ result' = None
    /\ file_size' = None
    /\ UNCHANGED <<file, pos, response>>
    /\ IF IsNone(file)
       THEN CoreFinish(Raised(CoreFileMissingError))
       ELSE IF Falsy(Get(file).filename)
       THEN CoreFinish(Raised(CoreFilenameMissingError))
       ELSE LET file_extension == Lower(PathSuffix(Get(Get(file).filename)))
            IN  IF file_extension \notin CoreService_SUPPORTED_EXTENSIONS
                THEN CoreFinish(Raised(
                         CoreUnsupportedFormatError(file_extension)))
                ELSE /\ pc' = "core_read"
                     /\ outcome' = NoOutcome

\* core_service.py lines 58-62: file_content = await file.read()
CoreRead ==
    /\ pc = "core_read"
    /\ UNCHANGED others
    /\ pc' = "core_reset"
    /\ \/ /\ file_content' = Some(UploadSize - pos)
          /\ pos' = UploadSize
          /\ ops' = Append(ops, "read_ok")
          /\ UNCHANGED <<pending, caught>>
       \/ \E e \in StreamErrors, p \in {pos, UploadSize} :
            /\ pending' = Some(ReadError(e))
            /\ caught' = Some(e)
            /\ pos' = p
            /\ ops' = Append(ops, "read_err")
            /\ UNCHANGED file_content
    /\ UNCHANGED <<file, calls, convCalls, result, file_size, outcome,
                   response>>

\* core_service.py lines 63-76: the finally clause's seek(0), then the
\* exception in flight or the content checks
CoreReset ==
    /\ pc = "core_reset"
    /\ UNCHANGED others
    /\ UNCHANGED <<file, calls, locals, response>>
    /\ \/ /\ pos' = 0
          /\ ops' = Append(ops, "seek_ok")
          /\ IF ~IsNone(pending)
             THEN CoreFinish(Raised(Get(pending)))
             ELSE IF Get(file_content) = 0
             THEN CoreFinish(Raised(EmptyContentError))
             ELSE IF Get(file_content) > CoreService_MAX_FILE_SIZE
             THEN CoreFinish(Raised(CoreFileSizeError(Get(file_content))))
             ELSE /\ pc' = "core_convert"
                  /\ UNCHANGED outcome
       \/ \E e \in StreamErrors :
            /\ ops' = Append(ops, "seek_err")
            /\ UNCHANGED pos
            /\ CoreFinish(Raised(e))

\* core_service.py lines 79-98: the converter call and what is returned
CoreConvert ==
    /\ pc = "core_convert"
    /\ UNCHANGED others
    /\ convCalls' = convCalls + 1
    /\ UNCHANGED <<file, pos, calls, ops, file_content, pending, file_size,
                   response>>
    /\ \/ \E e \in ConverterErrors :
            /\ caught' = Some(e)
            /\ CoreFinish(Raised(ConversionError(e)))
            /\ UNCHANGED result
       \/ \E r \in ConverterResults :
            /\ result' = Some(r)
            /\ IF ConversionEmpty(r)
               THEN /\ caught' = Some(EmptyConversionError)
                    /\ CoreFinish(Raised(ConversionError(EmptyConversionError)))
               ELSE /\ UNCHANGED caught
                    /\ CoreFinish(CoreReturned(CoreMarkdown(r)))

TwiceNext ==
    \/ TwiceProcessDocument
    \/ ReadContent
    \/ ResetStream
    \/ Convert
    \/ MetaRead
    \/ MetaSeek
    \/ KeepFirst
    \/ CoreStart
    \/ CoreRead
    \/ CoreReset
    \/ CoreConvert

TwiceSpec == TwiceInit /\ [][TwiceNext]_vars

(* ============================== claims ================================ *)
Done == pc = "done"

HasName == ~IsNone(file) /\ ~IsNone(Get(file).filename)
                         /\ Get(Get(file).filename) # <<>>

Filename == Get(Get(file).filename)

\* the registry lookup both operations make: Path(filename).suffix.lower()
InRegistry == HasName /\ Lower(PathSuffix(Filename)) \in SUPPORTED_EXTENSIONS

StreamOps == {"read_ok", "read_err", "seek_ok", "seek_err"}

FirstReadOk == Len(ops) >= 1 /\ ops[1] = "read_ok"
FirstReadFailed == Len(ops) >= 1 /\ ops[1] = "read_err"
FirstResetOk == Len(ops) >= 2 /\ ops[2] = "seek_ok"
FirstResetFailed == Len(ops) >= 2 /\ ops[2] = "seek_err"

IsError(o) == o.kind = "error"

\* C1: after process_document completes on an upload that passed the
\* presence and extension checks, whatever the outcome, the stream is at
\* offset 0: the last stream operation was a successful seek(0).
C1_StreamAtStartAfterProcess ==
    (Done /\ InRegistry) =>
        /\ ops # <<>>
        /\ ops[Len(ops)] = "seek_ok"
        /\ pos = 0

\* C2: an upload whose filename is missing or empty, or whose extension is
\* not in the registry, fails with InvalidInput (ValueError) and the call
\* never reads or seeks the stream and never invokes the converter.
C2_NameChecksBeforeAnyIO ==
    (calls > 0 /\ ~InRegistry) =>
        /\ Done
        /\ IsError(outcome)
        /\ outcome.exc.type = "ValueError"
        /\ ops = <<>>
        /\ pos = 0
        /\ convCalls = 0
        /\ file_content = None

C2_Witness ==
    /\ Done
    /\ HasName
    /\ ~InRegistry
    /\ Get(file).size = 1024
    /\ IsError(outcome)

\* C3: when an upload violates several rules at once the failure reported
\* is that of the earliest step in the order presence, extension, read,
\* empty content, size, conversion.
C3_EarliestFailureReported ==
    Done =>
        /\ ~HasName => outcome = Raised(MissingFileError)
        /\ (HasName /\ ~InRegistry) =>
              /\ IsError(outcome)
              /\ Head(outcome.exc.msg) = "Unsupported file format: "
        /\ FirstReadFailed =>
              /\ IsError(outcome)
              /\ outcome.exc # EmptyContentError
              /\ Head(outcome.exc.msg) # "File size ("
              /\ convCalls = 0
        /\ (FirstReadOk /\ FirstResetOk /\ Get(file_content) = 0) =>
              /\ outcome = Raised(EmptyContentError)
              /\ convCalls = 0
        /\ (FirstReadOk /\ FirstResetOk
                /\ Get(file_content) > 10 * 1024 * 1024) =>
              /\ IsError(outcome)
              /\ Head(outcome.exc.msg) = "File size ("
              /\ convCalls = 0

C3_Witness ==
    /\ Done
    /\ HasName
    /\ ~InRegistry
    /\ Get(file).size \in {0, 11 * 1024 * 1024}
    /\ IsError(outcome)
    /\ Head(outcome.exc.msg) = "Unsupported file format: "

\* C4: for content of length L that was read (and the stream reset) from an
\* upload with a supported extension: L = 0 fails with "File content is
\* empty."; L > 10*1024*1024 fails with a ValueError whose message carries L
\* and the limit; 0 < L <= limit passes both checks and the converter runs.
C4_EmptyAndSizeChecks ==
    (InRegistry /\ FirstReadOk /\ FirstResetOk) =>
        LET L == Get(file_content) IN
        /\ L = 0 =>
              /\ Done
              /\ outcome = Raised(ValueError(<<"File content is empty.">>))
        /\ L > 10 * 1024 * 1024 =>
              /\ Done
              /\ IsError(outcome)
              /\ outcome.exc.type = "ValueError"
              /\ \E i \in 1..Len(outcome.exc.msg) :
                    outcome.exc.msg[i] = ToString(L)
              /\ \E i \in 1..Len(outcome.exc.msg) :
                    outcome.exc.msg[i] = "10485760"
              /\ convCalls = 0
        /\ (0 < L /\ L <= 10 * 1024 * 1024) =>
              /\ pc = "convert" \/ convCalls = 1
              /\ Done => outcome # Raised(EmptyContentError)
              /\ (Done /\ IsError(outcome)) =>
                    Head(outcome.exc.msg) # "File size ("

C4_Witness ==
    /\ Done
    /\ InRegistry
    /\ FirstReadOk
    /\ FirstResetOk
    /\ Get(file_content) = 10 * 1024 * 1024
    /\ convCalls = 1
    /\ outcome.kind = "result"

\* C5: if read() throws, seek(0) is still attempted and the caller always
\* receives Exception("Error reading file: <cause>"), also when the seek
\* itself fails.
C5_ReadFailureAlwaysPropagates ==
    (Done /\ FirstReadFailed) =>
        /\ Len(ops) = 2
        /\ ops[2] \in {"seek_ok", "seek_err"}
        /\ outcome = Raised([type |-> "Exception",
                             msg |-> <<"Error reading file: ">>
                                       \o Get(caught).msg])

\* the text the converter returned is absent, empty or only whitespace
ConvertedNothing ==
    /\ ~IsNone(result)
    /\ \/ IsNone(Get(result))
       \/ IsNone(Get(Get(result)))
       \/ \A i \in 1..Len(Get(Get(Get(result)))) :
              Get(Get(Get(result)))[i] \in Whitespace

\* C6: if the converter returns no result, or a text that is empty or only
\* whitespace, process_document fails with Exception("Conversion resulted in
\* empty content.") and returns no result.
C6_EmptyConversionFails ==
    ConvertedNothing =>
        /\ Done
        /\ outcome =
             Raised([type |-> "Exception",
                     msg |-> <<"Conversion resulted in empty content.">>])

\* C7: every returned markdown is non-empty and has no leading or trailing
\* whitespace.
C7_MarkdownNonEmptyStripped ==
    (Done /\ outcome.kind = "result") =>
        /\ outcome.markdown # <<>>
        /\ Head(outcome.markdown) \notin Whitespace
        /\ outcome.markdown[Len(outcome.markdown)] \notin Whitespace

\* the converter was invoked and raised instead of returning
ConverterRaised == Done /\ convCalls = 1 /\ IsNone(result)

\* C8: an exception thrown by the converter, of whatever kind, reaches the
\* caller as Exception("Error during conversion: <cause>"), never as a
\* ValueError.
C8_ConverterErrorsWrapped ==
    ConverterRaised =>
        /\ outcome = Raised([type |-> "Exception",
                             msg |-> <<"Error during conversion: ">>
                                       \o Get(caught).msg])
        /\ outcome.exc.type # "ValueError"

C8_Witness ==
    /\ ConverterRaised
    /\ Get(caught).type = "ValueError"
    /\ IsError(outcome)

\* one of the four caller-correctable conditions holds
CallerCorrectable ==
    \/ ~HasName
    \/ ~InRegistry
    \/ ~IsNone(file_content) /\ Get(file_content) = 0
    \/ ~IsNone(file_content) /\ Get(file_content) > 10 * 1024 * 1024

\* C9: process_document raises a ValueError only when the upload or its
\* filename is missing, the extension is unsupported, the content is empty
\* or the content exceeds the limit; every other failure is not a ValueError.
C9_ValueErrorOnlyForInvalidInput ==
    (Done /\ IsError(outcome)) =>
        (outcome.exc.type = "ValueError" => CallerCorrectable)

\* C10: the convert endpoint answers 200 with the result when
\* process_document returns, 400 with the message as detail exactly when it
\* raises a ValueError, and 500 with detail "Error converting document: " +
\* message for every other failure.
C10_ConvertEndpointStatus ==
    Done =>
        /\ ~IsNone(response)
        /\ outcome.kind = "result" =>
              /\ Get(response).status = 200
              /\ Get(response).body.markdown = outcome.markdown
              /\ Get(response).body.metadata = outcome.metadata
        /\ (IsError(outcome) /\ outcome.exc.type = "ValueError") =>
              /\ Get(response).status = 400
              /\ Get(response).detail = outcome.exc.msg
        /\ (IsError(outcome) /\ outcome.exc.type # "ValueError") =>
              /\ Get(response).status = 500
              /\ Get(response).detail =
                    <<"Error converting document: ">> \o outcome.exc.msg
        /\ Get(response).status = 400 <=>
              (IsError(outcome) /\ outcome.exc.type = "ValueError")

C10_Witness ==
    /\ Done
    /\ ~IsNone(response)
    /\ Get(response).status = 400
    /\ outcome = Raised(EmptyContentError)

Validated == validations > 0

\* C11: validate_document never raises for expected bad input (null upload,
\* missing or empty filename, unsupported extension, no extension): it
\* returns a ValidationResponse and the validate endpoint answers 200 with
\* it; 500 is answered only when validate_document raised.
C11_ValidateNeverRaises ==
    Validated =>
        /\ validation.kind = "result"
        /\ ~IsNone(validate_response)
        /\ Get(validate_response).status = 200
        /\ Get(validate_response).body = validation.value
        /\ Get(validate_response).status = 500 => validation.kind = "error"

C11_Witness ==
    /\ Validated
    /\ HasName
    /\ PathSuffix(Filename) = <<>>
    /\ Get(validate_response).status = 200
    /\ ~validation.value.is_valid

\* C12: for a null upload or an upload whose filename is null or empty,
\* validate_document returns exactly is_valid = false, filename = null,
\* is_supported_format = null and the error "File must be provided with a
\* valid filename."
C12_MissingFileValidation ==
    (Validated /\ ~HasName) =>
        validation =
            [ kind |-> "result",
              value |-> [ is_valid |-> FALSE,
                          filename |-> <<>>,
                          is_supported_format |-> <<>>,
                          error |-> << <<"File must be provided with a valid filename.">> >> ] ]

C12_Witness ==
    /\ Validated
    /\ IsNone(file)
    /\ validation.kind = "result"
    /\ IsNone(validation.value.filename)

C14_ValidateLeavesStreamAlone ==
    [][ validations' # validations =>
            /\ file' = file
            /\ pos' = pos
            /\ ops' = ops
            /\ pc' = pc
            /\ calls' = calls
            /\ outcome' = outcome ]_vars

C14_Witness ==
    /\ validations = 2
    /\ calls = 1
    /\ pc = "convert"
    /\ ops = <<"read_ok", "seek_ok">>
    /\ Get(file_content) = Get(file).size

\* the extension as the glossary defines it: the lowercase suffix after the
\* final dot of the filename, empty if there is no dot
AfterFinalDot(name) ==
    IF \E i \in 1..Len(name) : name[i] = "."
    THEN LET i == CHOOSE k \in 1..Len(name) :
                     name[k] = "." /\ \A j \in (k+1)..Len(name) : name[j] # "."
         IN  Lower(SubSeq(name, i + 1, Len(name)))
    ELSE <<>>

\* process_document failed at its extension check
UnsupportedFormatFailure ==
    /\ Done
    /\ IsError(outcome)
    /\ outcome.exc.type = "ValueError"
    /\ Head(outcome.exc.msg) = "Unsupported file format: "

\* C15: for every non-empty filename whose extension (the lowercase suffix
\* after the final dot, wherever that dot is) is in the registry,
\* validate_document returns is_valid = true and process_document does not
\* fail at the extension check.
C15_RegistryExtensionsAccepted ==
    (HasName /\ (<<".">> \o AfterFinalDot(Filename)) \in SUPPORTED_EXTENSIONS) =>
        /\ (Validated /\ validation.kind = "result") =>
              validation.value.is_valid
        /\ ~UnsupportedFormatFailure

\* the part of a message that follows the fragment frag
ListAfter(msg, frag) ==
    LET i == CHOOSE k \in 1..Len(msg) : msg[k] = frag
    IN  SubSeq(msg, i + 1, Len(msg))

\* the registry, sorted by code point and joined with ", "
SortedFormatsText ==
    << ".","d","o","c",
       ", ", ".","d","o","c","x",
       ", ", ".","h","t","m",
       ", ", ".","h","t","m","l",
       ", ", ".","m","d",
       ", ", ".","p","d","f",
       ", ", ".","p","p","t",
       ", ", ".","p","p","t","x",
       ", ", ".","r","t","f",
       ", ", ".","t","x","t",
       ", ", ".","x","l","s",
       ", ", ".","x","l","s","x" >>

\* C16: for every non-empty filename, validate_document reports
\* is_supported_format = false exactly when process_document fails with the
\* unsupported-format ValueError, and both messages embed the same sorted,
\* comma-joined registry list.
C16_SameUnsupportedVerdict ==
    (HasName /\ Validated /\ validation.kind = "result" /\ Done) =>
        /\ (validation.value.is_supported_format = <<FALSE>>)
              <=> UnsupportedFormatFailure
        /\ UnsupportedFormatFailure =>
              /\ ListAfter(Get(validation.value.error),
                           "Unsupported file format. Supported formats: ")
                    = ListAfter(outcome.exc.msg, ". Supported formats: ")
              /\ ListAfter(outcome.exc.msg, ". Supported formats: ")
                    = SortedFormatsText

C16_Witness ==
    /\ HasName
    /\ Validated
    /\ validation.kind = "result"
    /\ validation.value.is_supported_format = <<FALSE>>
    /\ UnsupportedFormatFailure
    /\ PathSuffix(Filename) # <<>>

\* the twelve registry extensions in ascending order
SortedFormatsList ==
    << <<".","d","o","c">>,
       <<".","d","o","c","x">>,
       <<".","h","t","m">>,
       <<".","h","t","m","l">>,
       <<".","m","d">>,
       <<".","p","d","f">>,
       <<".","p","p","t">>,
       <<".","p","p","t","x">>,
       <<".","r","t","f">>,
       <<".","t","x","t">>,
       <<".","x","l","s">>,
       <<".","x","l","s","x">> >>

\* The expected list holds each of the 12 registry extensions once, in
\* strictly ascending code-point order.
SortedFormatsAscendingRegistry ==
    /\ Len(SortedFormatsList) = 12
    /\ { SortedFormatsList[i] : i \in 1..12 } = SUPPORTED_EXTENSIONS
    /\ \A i \in 1..11 :
          /\ StrLE(SortedFormatsList[i], SortedFormatsList[i+1])
          /\ SortedFormatsList[i] # SortedFormatsList[i+1]

\* C17: get_supported_extensions returns the twelve registry extensions in
\* ascending lexicographic order without duplicates, and every call returns
\* a list equal to the one before, whatever was called in between.
C17_SupportedExtensionsSortedStable ==
    [][ /\ formats' # formats =>
            /\ Get(formats') = SortedFormatsList
            /\ SortedFormatsAscendingRegistry
        /\ ~IsNone(formats) => formats' = formats ]_vars

C17_Witness ==
    /\ ~IsNone(formats)
    /\ Len(Get(formats)) = 12
    /\ Validated
    /\ Done

ImageJpg == <<"i","m","a","g","e",".","j","p","g">>

\* C18 as stated: validate_document on "image.jpg" returns is_valid = false,
\* filename "image.jpg", is_supported_format = false and the error
\* "Unsupported file format. Supported formats: .doc, .docx, .html, .htm,
\* .md, .pdf, .ppt, .pptx, .rtf, .txt, .xls, .xlsx".
C18_ImageJpgAsStated ==
    (Validated /\ HasName /\ Filename = ImageJpg) =>
        validation =
            [ kind |-> "result",
              value |-> [ is_valid |-> FALSE,
                          filename |-> <<ImageJpg>>,
                          is_supported_format |-> <<FALSE>>,
                          error |-> << <<"Unsupported file format. Supported formats: ">> \o
    << ".","d","o","c",
       ", ", ".","d","o","c","x",
       ", ", ".","h","t","m","l",
       ", ", ".","h","t","m",
       ", ", ".","m","d",
       ", ", ".","p","d","f",
       ", ", ".","p","p","t",
       ", ", ".","p","p","t","x",
       ", ", ".","r","t","f",
       ", ", ".","t","x","t",
       ", ", ".","x","l","s",
       ", ", ".","x","l","s","x" >> >> ] ]

\* C18, amended: validate_document on "image.jpg" returns is_valid = false,
\* filename "image.jpg", is_supported_format = false and the error
\* "Unsupported file format. Supported formats: .doc, .docx, .htm, .html,
\* .md, .pdf, .ppt, .pptx, .rtf, .txt, .xls, .xlsx" (".htm" before ".html").
C18_ImageJpgValidation ==
    (Validated /\ HasName /\ Filename = ImageJpg) =>
        validation =
            [ kind |-> "result",
              value |-> [ is_valid |-> FALSE,
                          filename |-> <<ImageJpg>>,
                          is_supported_format |-> <<FALSE>>,
                          error |-> << <<"Unsupported file format. Supported formats: ">> \o
    << ".","d","o","c",
       ", ", ".","d","o","c","x",
       ", ", ".","h","t","m",
       ", ", ".","h","t","m","l",
       ", ", ".","m","d",
       ", ", ".","p","d","f",
       ", ", ".","p","p","t",
       ", ", ".","p","p","t","x",
       ", ", ".","r","t","f",
       ", ", ".","t","x","t",
       ", ", ".","x","l","s",
       ", ", ".","x","l","s","x" >> >> ] ]

C18_Witness ==
    /\ Validated
    /\ HasName
    /\ Filename = ImageJpg
    /\ validation.kind = "result"
    /\ ~validation.value.is_valid

\* C19: in every returned result the metadata agrees with the extension
\* check: is_supported is true and "." + file_extension is in the registry.
C19_MetadataAgreesWithCheck ==
    (Done /\ outcome.kind = "result") =>
        /\ outcome.metadata.is_supported
        /\ (<<".">> \o outcome.metadata.file_extension) \in SUPPORTED_EXTENSIONS

\* C20: in every returned result size_bytes equals the length of the content
\* handed to the converter, 0 < size_bytes <= 10*1024*1024, and the
\* metadata's filename is the upload's filename.
C20_MetadataSizeAndName ==
    (Done /\ outcome.kind = "result") =>
        /\ convCalls = 1
        /\ outcome.metadata.size_bytes = Get(file_content)
        /\ 0 < outcome.metadata.size_bytes
        /\ outcome.metadata.size_bytes <= 10 * 1024 * 1024
        /\ outcome.metadata.filename = Filename

C20_Witness ==
    /\ Done
    /\ outcome.kind = "result"
    /\ outcome.metadata.size_bytes = 1024
    /\ Get(file_content) = 1024
    /\ outcome.metadata.filename = Filename

\* C21: in a returned result metadata.size_mb is size_bytes / 1,048,576
\* rounded to two decimals (in hundredths: a nearest integer to
\* size_bytes * 100 / 1,048,576); 1024 bytes give 0.0, 10,485,760 bytes give
\* 10.0, and size_mb never exceeds 10.0.
C21_SizeMbRounded ==
    (Done /\ outcome.kind = "result") =>
        LET m == outcome.metadata
            d == 100 * m.size_bytes - m.size_mb * 1048576
        IN  /\ 2 * d <= 1048576
            /\ 2 * d >= -1048576
            /\ m.size_bytes = 1024 => m.size_mb = 0
            /\ m.size_bytes = 10485760 => m.size_mb = 1000
            /\ m.size_mb <= 1000

C21_Witness ==
    /\ Done
    /\ outcome.kind = "result"
    /\ outcome.metadata.size_bytes = 5243
    /\ outcome.metadata.size_mb = 1

\* C22: for a null upload or an upload whose filename is null or empty,
\* process_document fails with a ValueError (InvalidInput) whose message is
\* "Valid file with filename must be provided.", before touching the stream.
C22_MissingFileRejected ==
    (Done /\ ~HasName) =>
        /\ outcome =
              [ kind |-> "error",
                exc |-> [ type |-> "ValueError",
                          msg |-> <<"Valid file with filename must be provided.">> ] ]
        /\ ops = <<>>

C22_Witness ==
    /\ Done
    /\ ~IsNone(file)
    /\ Get(file).filename = Some(<<>>)
    /\ outcome.kind = "error"
    /\ outcome.exc.msg = <<"Valid file with filename must be provided.">>

\* a direct validate_api_key call has been made
KeyChecked == key_valid # NoOutcome

Accepted(o) == o = [kind |-> "result", value |-> TRUE]

Unauthorized(o) ==
    o = [ kind |-> "error",
          exc |-> [ type |-> "HTTPException", status_code |-> 401,
                    detail |-> <<"Unauthorized">> ] ]

\* the presented value is non-empty and str(header) == str(secret)
StringEqualKey == ~Falsy(api_key_header) /\ Str(api_key_header) = Str(api_key)

WhitespaceOnly(x) == ~Falsy(x) /\ Strip(Get(x)) = <<>>

CoreInvoked == calls > 0 \/ validations > 0 \/ ~IsNone(formats)

\* the request carries the configured secret
ValidKey ==
    /\ ~IsNone(api_key)
    /\ Get(api_key) # <<>>
    /\ api_key_header = api_key

\* the dependency has answered the request
Answered == auth # NoOutcome

\* C24: every request to the document endpoints is authenticated before the
\* core runs: a request without a valid API key is rejected and none of
\* get_supported_extensions, process_document, validate_document is invoked
\* for it.
C24_AuthenticatedBeforeCore ==
    /\ CoreInvoked => (Answered /\ ValidKey)
    /\ (Answered /\ ~ValidKey) => auth.kind = "error"

C29_FailsClosedWithoutSecret ==
    IsNone(api_key) =>
        /\ KeyChecked => Unauthorized(key_valid)
        /\ Answered => auth.kind = "error"

\* what process_document yields on the upload of fr when it runs alone, from
\* an untouched stream, and the stream and the converter answer as they
\* answered fr: the outcome of fr is that one
OutcomeAlone(fr) ==
    LET f == fr.file
        o == fr.outcome
    IN  IF FileMissing(f) THEN o = Raised(MissingFileError)
        ELSE
        LET name == Get(Get(f).filename)
            size == Get(f).size
            ext == Lower(PathSuffix(name))
        IN  IF ExtensionUnsupported(ext)
              THEN o = Raised(UnsupportedFormatError(ext))
            ELSE IF fr.ops[1] = "read_err"
              THEN IF fr.ops[2] = "seek_ok"
                   THEN o = Raised(ReadError(Get(fr.caught)))
                   ELSE o.kind = "error" /\ o.exc \in StreamErrors
            ELSE IF fr.ops[2] = "seek_err"
              THEN o.kind = "error" /\ o.exc \in StreamErrors
            ELSE IF size = 0 THEN o = Raised(EmptyContentError)
            ELSE IF size > MAX_FILE_SIZE THEN o = Raised(FileSizeError(size))
            ELSE IF IsNone(fr.result)
              THEN o = Raised(ConversionError(Get(fr.caught)))
            ELSE IF ConversionEmpty(Get(fr.result))
              THEN o = Raised(ConversionError(EmptyConversionError))
            ELSE IF fr.ops = <<"read_ok", "seek_ok", "read_ok", "seek_ok">>
              THEN o = Returned(Markdown(Get(fr.result)),
                                FileMetadata(name, size))
            ELSE o = Raised(ConversionError(Get(fr.caught)))

\* an invocation holds the bytes of its own upload, and once finished it has
\* the outcome it has alone
AsAlone(fr) ==
    /\ (fr.ops # <<>> /\ fr.ops[1] = "read_ok") =>
          fr.file_content = Some(Get(fr.file).size)
    /\ (fr.pc = "done" /\ fr.calls = 1) => OutcomeAlone(fr)
    /\ fr.validations = 1 =>
          fr.validation = ValidationReturned(
              IF FileMissing(fr.file) THEN MissingFileValidation
              ELSE LET name == Get(Get(fr.file).filename)
                       ok == _is_file_supported(name)
                   IN  ValidationResponse(ok, Some(name), Some(ok),
                           IF ok THEN None
                           ELSE Some(UnsupportedValidationError)))

\* C26: however the steps of two concurrent process_document /
\* validate_document invocations on distinct uploads interleave, each
\* invocation's outcome is the one it produces running alone, and a step of
\* one invocation leaves the state of the other as it was.
C26_ConcurrentInvocationsIndependent ==
    /\ [](AsAlone(Frame) /\ AsAlone(Get(suspended)))
    /\ [][running' = running => suspended' = suspended]_vars

C26_Witness ==
    /\ ~IsNone(suspended)
    /\ Done
    /\ calls = 1
    /\ outcome.kind = "result"
    /\ Get(file).size = 1024
    /\ Get(suspended).pc = "done"
    /\ Get(suspended).calls = 1
    /\ Get(suspended).outcome = Raised(EmptyContentError)

\* C27: no operation changes SUPPORTED_EXTENSIONS or MAX_FILE_SIZE, and
\* get_supported_extensions hands out a fresh list each call: whatever
\* callers did to the lists they received, the registry is as it was and
\* every call returns the sorted registry.
C27_RegistryUnchanged ==
    /\ registry = [ SUPPORTED_EXTENSIONS |-> SUPPORTED_EXTENSIONS,
                    MAX_FILE_SIZE |-> 10485760 ]
    /\ ~IsNone(formats) => Get(formats) = SortedFormatsList

C27_Witness ==
    /\ Len(handed) = 2
    /\ handed[1] = <<>>
    /\ handed[2] = SortedFormatsList
    /\ formats = Some(SortedFormatsList)
    /\ Done
    /\ validations = 1

\* every stream operation of a call succeeded
StreamOpsOk(o) == \A i \in 1..Len(o) : o[i] \in {"read_ok", "seek_ok"}

\* the converter is deterministic: called in both calls, it answered the
\* second as it answered the first
SameConverter ==
    (convCalls = 1 /\ Get(first).convCalls = 1) =>
        /\ result = Get(first).result
        /\ caught = Get(first).caught

\* the second call on the upload has finished, and the stream operations of
\* both calls succeeded
SecondCallFinished(at) ==
    /\ pc = at
    /\ calls = 2
    /\ ~IsNone(first)
    /\ StreamOpsOk(ops)
    /\ StreamOpsOk(Get(first).ops)

\* C28: with a deterministic converter and stream operations that succeed,
\* a second process_document call on the same upload yields the outcome of
\* the first: an equal result or the same error, also when the first call
\* failed at the empty-content, size or conversion step.
C28_ProcessRepeatable ==
    (SecondCallFinished("done") /\ SameConverter) =>
        outcome = Get(first).outcome

C28_Witness ==
    /\ SecondCallFinished("done")
    /\ SameConverter
    /\ convCalls = 1
    /\ Get(first).convCalls = 1
    /\ outcome.kind = "error"
    /\ outcome = Get(first).outcome

\* C30: CoreService and DocumentMixinService have equal SUPPORTED_EXTENSIONS
\* and MAX_FILE_SIZE, and on an upload whose stream operations succeed
\* convert_file_to_markdown and process_document fail with the same kind of
\* error or both succeed, the returned string being process_document's
\* markdown.
C30_SamePipeline ==
    /\ CoreService_SUPPORTED_EXTENSIONS = SUPPORTED_EXTENSIONS
    /\ CoreService_MAX_FILE_SIZE = MAX_FILE_SIZE
    /\ (SecondCallFinished("core_done") /\ SameConverter) =>
          LET p == Get(first).outcome IN
          \/ /\ p.kind = "error"
             /\ outcome.kind = "error"
             /\ outcome.exc.type = p.exc.type
          \/ /\ p.kind = "result"
             /\ outcome.kind = "result"
             /\ outcome.markdown = p.markdown

C30_Witness ==
    /\ SecondCallFinished("core_done")
    /\ SameConverter
    /\ Get(first).outcome.kind = "result"
    /\ outcome.kind = "result"
    /\ outcome.markdown = <<"x">>

====
